---- MODULE Spec2Model ----
(***************************************************************************)
(* Model of the telemetry ingestion and threshold-alerting pipeline of     *)
(* src/src/functions/ingestSensorData.ts: the module-level connection      *)
(* pool, the handler ingestSensorData and checkThresholdViolations.        *)
(* One process per delivery (one invocation of the handler); a process     *)
(* yields at every await, where the awaited store call returns or throws.  *)
(***************************************************************************)
EXTENDS Integers, Sequences, FiniteSets

VARIABLES
  pool,                 \* module-level `pool` (line 17): "null" or the id of the pool
  Houses,               \* store: rows of table Houses
  Thresholds,           \* store: result of usp_GetThresholdsForAge per <<eventType, age>>
  Alerts,               \* store: rows of table Alerts, in insertion order
  calls,                \* history: every store call that has returned or thrown
  pc,                   \* per delivery: position in the handler
  messages,             \* per delivery: messageArray (line 44)
  dbPool,               \* per delivery: dbPool (line 48)
  mi,                   \* per delivery: index of the current message (line 51)
  totalEventsInserted,  \* per delivery: totalEventsInserted (line 49)
  eventsByHouse,        \* per delivery: eventsByHouse (line 97), in insertion order
  hi,                   \* per delivery: index of the current house group (line 104)
  house,                \* per delivery: house (line 117)
  birdAge,              \* per delivery: birdAge (line 118)
  ei,                   \* per delivery: index of the current event of the group (line 121)
  request               \* per delivery: parameters of the pending alert insert (155-165)

vars == <<pool, Houses, Thresholds, Alerts, calls, pc, messages, dbPool, mi,
          totalEventsInserted, eventsByHouse, hi, house, birdAge, ei, request>>

(***************************************************************************)
(* Bounds of the model.                                                    *)
(***************************************************************************)
MaxSize == 4            \* size of a delivery: its messages plus the events they hold
MaxValue == 2           \* numeric values range over 0..MaxValue, bounds over 0..MaxValue+1

(***************************************************************************)
(* Values.  A nullable number is <<>> (null) or <<n>>.                     *)
(***************************************************************************)
NULL == <<>>
Num(n) == <<n>>
NoPool == "null"
NoSeverity == "null"
SqlNull == "NULL"
Procs == {"d1", "d2"}

\* JavaScript `a || b` on nullable numbers: null and 0 are falsy.
JsOr(a, b) == IF a = NULL \/ a = Num(0) THEN b ELSE a

DefaultBirdAge == 21

(***************************************************************************)
(* Messages.  A message is a string or an already parsed object.  The text *)
(* of a string message either is the JSON text of a value or is not JSON.  *)
(***************************************************************************)
NoData == [hasEvents |-> FALSE, events |-> <<>>]
DataOf(evs) == [hasEvents |-> TRUE, events |-> evs]
NotJson == [type |-> "string", valid |-> FALSE, value |-> NoData]
JsonMsg(data) == [type |-> "string", valid |-> TRUE, value |-> data]
ObjMsg(data) == [type |-> "object", valid |-> TRUE, value |-> data]

\* Lines 54-56: JSON.parse of a string message throws on text that is not JSON;
\* an object message is taken as it is.
ParseMessage(message) ==
  IF message.type = "string"
  THEN IF message.valid THEN [ok |-> TRUE, data |-> message.value]
                        ELSE [ok |-> FALSE, data |-> NoData]
  ELSE [ok |-> TRUE, data |-> message.value]

\* Mutant of NoEventsArray: the test of line 58 is missing.
NoEventsArray_Never(data) == FALSE

\* Line 58: !data.events || !Array.isArray(data.events)
NoEventsArray(data) == ~data.hasEvents

EventsOf(message) == ParseMessage(message).data.events

(***************************************************************************)
(* Lines 97-102: grouping by houseId into a Map, which iterates in the     *)
(* order in which keys were first set.                                     *)
(***************************************************************************)
MapHas(map, key) == \E i \in 1..Len(map) : map[i].houseId = key

MapGet(map, key) ==
  LET i == CHOOSE j \in 1..Len(map) : map[j].houseId = key IN map[i].houseEvents

\* Mutant of MapSet: a new key is put before the keys already set.
MapSet_NewFirst(map, key, val) ==
  IF MapHas(map, key)
  THEN [i \in 1..Len(map) |->
          IF map[i].houseId = key THEN [houseId |-> key, houseEvents |-> val] ELSE map[i]]
  ELSE <<[houseId |-> key, houseEvents |-> val]>> \o map

MapSet(map, key, val) ==
  IF MapHas(map, key)
  THEN [i \in 1..Len(map) |->
          IF map[i].houseId = key THEN [houseId |-> key, houseEvents |-> val] ELSE map[i]]
  ELSE Append(map, [houseId |-> key, houseEvents |-> val])

RECURSIVE GroupFrom(_, _, _)
GroupFrom(events, i, map) ==
  IF i > Len(events) THEN map
  ELSE LET event == events[i]
           houseEvents == IF MapHas(map, event.houseId) THEN MapGet(map, event.houseId) ELSE <<>>
       IN GroupFrom(events, i + 1, MapSet(map, event.houseId, Append(houseEvents, event)))

GroupByHouse(events) == GroupFrom(events, 1, <<>>)

(***************************************************************************)
(* Lines 107-113: the house query.  TRY_CAST gives NULL for a string that  *)
(* is not a UUID, and a comparison with NULL is not true.  The query has   *)
(* no ORDER BY, so the rows come back in any order.                        *)
(***************************************************************************)
UuidStrings == {"uuid1", "uuid2"}
TryCastUuid(s) == IF s \in UuidStrings THEN s ELSE SqlNull
SqlEq(a, b) == a # SqlNull /\ b # SqlNull /\ a = b

\* Mutant of HouseMatches: the WHERE clause holds of every row.
HouseMatches_Any(h, houseId) == TRUE

\* Line 112: the WHERE clause of the house query.
HouseMatches(h, houseId) ==
  SqlEq(h.DeviceId, houseId) \/ SqlEq(h.HouseId, TryCastUuid(houseId))

MatchingHouses(table, houseId) == {h \in table : HouseMatches(h, houseId)}

Orderings(S) ==
  {s \in [1..Cardinality(S) -> S] : \A i, j \in 1..Cardinality(S) : s[i] = s[j] => i = j}

HouseRecordsets(table, houseId) == Orderings(MatchingHouses(table, houseId))

(***************************************************************************)
(* Lines 133-151: the evaluation of one value against one policy row.      *)
(***************************************************************************)
\* Mutant of Message: the observed value and the bound change places.
Message_ValueAndBoundSwapped(name, kind, value, unit, bound) ==
  <<name, kind, bound[1], unit, "threshold", Num(value), unit>>

\* Lines 139, 142, 147, 150: the template of the alert message.
Message(name, kind, value, unit, bound) ==
  <<name, kind, value, unit, "threshold", bound, unit>>

\* Lines 138-139, 141-142, 146-147, 149-150: a check that fired; line 133-134: none.
Hit(threshold, severity, kind, value, bound) ==
  [alertSeverity |-> severity,
   alertMessage |-> Message(threshold.name, kind, value, threshold.unit, bound)]
Miss == [alertSeverity |-> NoSeverity, alertMessage |-> <<>>]

\* Mutant of EvaluateThreshold: the warning bounds are checked before the critical ones.
EvaluateThreshold_WarningFirst(threshold, value) ==
  IF threshold.warningMax # NULL /\ value > threshold.warningMax[1]
  THEN Hit(threshold, "warning", "is high", value, threshold.warningMax)
  ELSE IF threshold.warningMin # NULL /\ value < threshold.warningMin[1]
  THEN Hit(threshold, "warning", "is low", value, threshold.warningMin)
  ELSE IF threshold.criticalMax # NULL /\ value > threshold.criticalMax[1]
  THEN Hit(threshold, "critical", "is critically high", value, threshold.criticalMax)
  ELSE IF threshold.criticalMin # NULL /\ value < threshold.criticalMin[1]
  THEN Hit(threshold, "critical", "is critically low", value, threshold.criticalMin)
  ELSE Miss

\* Mutant of EvaluateThreshold: the comparisons are >= and <=.
EvaluateThreshold_NonStrict(threshold, value) ==
  IF threshold.criticalMax # NULL /\ value >= threshold.criticalMax[1]
  THEN Hit(threshold, "critical", "is critically high", value, threshold.criticalMax)
  ELSE IF threshold.criticalMin # NULL /\ value <= threshold.criticalMin[1]
  THEN Hit(threshold, "critical", "is critically low", value, threshold.criticalMin)
  ELSE IF threshold.warningMax # NULL /\ value >= threshold.warningMax[1]
  THEN Hit(threshold, "warning", "is high", value, threshold.warningMax)
  ELSE IF threshold.warningMin # NULL /\ value <= threshold.warningMin[1]
  THEN Hit(threshold, "warning", "is low", value, threshold.warningMin)
  ELSE Miss

\* Mutant of EvaluateThreshold: a value equal to criticalMax counts as above it.
EvaluateThreshold_CriticalMaxInclusive(threshold, value) ==
  IF threshold.criticalMax # NULL /\ value >= threshold.criticalMax[1]
  THEN Hit(threshold, "critical", "is critically high", value, threshold.criticalMax)
  ELSE IF threshold.criticalMin # NULL /\ value < threshold.criticalMin[1]
  THEN Hit(threshold, "critical", "is critically low", value, threshold.criticalMin)
  ELSE IF threshold.warningMax # NULL /\ value > threshold.warningMax[1]
  THEN Hit(threshold, "warning", "is high", value, threshold.warningMax)
  ELSE IF threshold.warningMin # NULL /\ value < threshold.warningMin[1]
  THEN Hit(threshold, "warning", "is low", value, threshold.warningMin)
  ELSE Miss

\* Mutant of EvaluateThreshold: each min bound is checked before its max bound.
EvaluateThreshold_MinFirst(threshold, value) ==
  IF threshold.criticalMin # NULL /\ value < threshold.criticalMin[1]
  THEN Hit(threshold, "critical", "is critically low", value, threshold.criticalMin)
  ELSE IF threshold.criticalMax # NULL /\ value > threshold.criticalMax[1]
  THEN Hit(threshold, "critical", "is critically high", value, threshold.criticalMax)
  ELSE IF threshold.warningMin # NULL /\ value < threshold.warningMin[1]
  THEN Hit(threshold, "warning", "is low", value, threshold.warningMin)
  ELSE IF threshold.warningMax # NULL /\ value > threshold.warningMax[1]
  THEN Hit(threshold, "warning", "is high", value, threshold.warningMax)
  ELSE Miss

\* Mutant of EvaluateThreshold: no test for null, so that a null bound is
\* compared as JavaScript compares null with a number, as 0.
EvaluateThreshold_NullAsZero(threshold, value) ==
  LET n(bound) == IF bound = NULL THEN 0 ELSE bound[1] IN
  IF value > n(threshold.criticalMax)
  THEN Hit(threshold, "critical", "is critically high", value, threshold.criticalMax)
  ELSE IF value < n(threshold.criticalMin)
  THEN Hit(threshold, "critical", "is critically low", value, threshold.criticalMin)
  ELSE IF value > n(threshold.warningMax)
  THEN Hit(threshold, "warning", "is high", value, threshold.warningMax)
  ELSE IF value < n(threshold.warningMin)
  THEN Hit(threshold, "warning", "is low", value, threshold.warningMin)
  ELSE Miss


EvaluateThreshold(threshold, value) ==
  IF threshold.criticalMax # NULL /\ value > threshold.criticalMax[1]
  THEN Hit(threshold, "critical", "is critically high", value, threshold.criticalMax)
  ELSE IF threshold.criticalMin # NULL /\ value < threshold.criticalMin[1]
  THEN Hit(threshold, "critical", "is critically low", value, threshold.criticalMin)
  ELSE IF threshold.warningMax # NULL /\ value > threshold.warningMax[1]
  THEN Hit(threshold, "warning", "is high", value, threshold.warningMax)
  ELSE IF threshold.warningMin # NULL /\ value < threshold.warningMin[1]
  THEN Hit(threshold, "warning", "is low", value, threshold.warningMin)
  ELSE Miss

\* Lines 161-164: the Threshold parameter of the alert insert.
ThresholdParam(alertSeverity, threshold) ==
  IF alertSeverity = "critical"
  THEN JsOr(threshold.criticalMax, threshold.criticalMin)
  ELSE JsOr(threshold.warningMax, threshold.warningMin)

\* Lines 155-169: the row the alert insert adds.
AlertRow(h, event, threshold) ==
  LET ev == EvaluateThreshold(threshold, event.value[1]) IN
  [HouseId |-> h.HouseId, Type |-> "threshold", Severity |-> ev.alertSeverity,
   Metric |-> event.eventType, Value |-> event.value,
   Threshold |-> ThresholdParam(ev.alertSeverity, threshold),
   Message |-> ev.alertMessage, IsActive |-> 1]

NoRequest == <<>>
NoHouse == [HouseId |-> SqlNull, DeviceId |-> SqlNull, BirdAgeInDays |-> NULL]

(***************************************************************************)
(* The store's data and the deliveries the model is run on.                *)
(***************************************************************************)
HouseRow(id, device, age) == [HouseId |-> id, DeviceId |-> device, BirdAgeInDays |-> age]

\* dev1 is a device identifier; uuid2 reaches its house by canonical id only.
\* (With CollidingHouses dev1 is the identifier of no house.)
PlainHouses == {HouseRow("uuid1", "dev1", Num(10)), HouseRow("uuid2", "dev2", NULL)}
\* The device identifier of one house is the canonical id of the other.
CollidingHouses == {HouseRow("uuid1", "uuid2", Num(10)), HouseRow("uuid2", "dev2", Num(0))}
HouseTables == {PlainHouses, CollidingHouses}

EventTypes == {"temperature", "humidity", "fan_status"}
LookupAges == {10, DefaultBirdAge}

Policy(wmin, wmax, cmin, cmax) ==
  [name |-> "Temperature", unit |-> "F",
   warningMin |-> wmin, warningMax |-> wmax, criticalMin |-> cmin, criticalMax |-> cmax]

\* One policy row for temperature in each age band, none for the other event types.
TableOf(young, old) ==
  [k \in EventTypes \X LookupAges |->
     IF k[1] = "temperature" THEN (IF k[2] = 10 THEN <<young>> ELSE <<old>>) ELSE <<>>]

BandedThresholds == TableOf(Policy(NULL, Num(0), NULL, Num(1)), Policy(Num(2), NULL, NULL, NULL))

BoundValues == {NULL} \cup {Num(n) : n \in 0..(MaxValue + 1)}
Policies == {Policy(a, b, c, d) : a \in BoundValues, b \in BoundValues,
                                  c \in BoundValues, d \in BoundValues}

Event(h, t, v) == [houseId |-> h, eventType |-> t, value |-> v]

EventAlphabet ==
  {Event("dev1", "temperature", Num(2)), Event("dev1", "fan_status", NULL),
   Event("dev1", "humidity", Num(1)), Event("uuid2", "temperature", Num(1))}

EventSeqs(n) == [1..n -> EventAlphabet]

\* The messages that hold at most n events.
MessagesUpTo(n) ==
  {NotJson, ObjMsg(NoData)} \cup {ObjMsg(DataOf(evs)) : evs \in UNION {EventSeqs(k) : k \in 0..n}}

\* The deliveries of size at most b, a message counting for one plus its events.
RECURSIVE DeliveriesUpTo(_)
DeliveriesUpTo(b) ==
  IF b <= 0 THEN {<<>>}
  ELSE {<<>>} \cup
       UNION {{<<m>> \o rest : rest \in DeliveriesUpTo(b - 1 - Len(EventsOf(m)))} :
              m \in MessagesUpTo(b - 1)}

Deliveries == DeliveriesUpTo(MaxSize)

\* One message with one numeric temperature event of house dev1, as text or as object.
ProbeDeliveries ==
  {<<JsonMsg(DataOf(<<Event("dev1", "temperature", Num(v))>>))>> : v \in 0..MaxValue}

(***************************************************************************)
(* The state after construction: no pool, every local at its initial       *)
(* value, and the delivery d1 handed to the handler.                       *)
(***************************************************************************)
InitLocals(delivery) ==
  /\ pool = NoPool
  /\ Alerts = <<>>
  /\ calls = <<>>
  /\ pc = [p \in Procs |-> IF p = "d1" THEN "start" ELSE "idle"]
  /\ messages = [p \in Procs |-> IF p = "d1" THEN delivery ELSE <<>>]
  /\ dbPool = [p \in Procs |-> NoPool]
  /\ mi = [p \in Procs |-> 0]
  /\ totalEventsInserted = [p \in Procs |-> 0]
  /\ eventsByHouse = [p \in Procs |-> <<>>]
  /\ hi = [p \in Procs |-> 0]
  /\ house = [p \in Procs |-> NoHouse]
  /\ birdAge = [p \in Procs |-> 0]
  /\ ei = [p \in Procs |-> 0]
  /\ request = [p \in Procs |-> NoRequest]

Init ==
  /\ Houses \in HouseTables
  /\ Thresholds = BandedThresholds
  /\ \E delivery \in Deliveries : InitLocals(delivery)

\* Two deliveries handed to the handler before either has run: two invocations
\* of ingestSensorData in one process, interleaved at their awaits.
\* The first is one message with one event that crosses a bound; the second
\* is the same delivery again, or one with another value or another house.
FirstDelivery == <<ObjMsg(DataOf(<<Event("dev1", "temperature", Num(MaxValue))>>))>>

SecondDeliveries ==
  {<<ObjMsg(DataOf(<<e>>))>> :
     e \in {Event("dev1", "temperature", Num(v)) : v \in 0..MaxValue}
          \cup {Event("uuid2", "temperature", Num(1))}}

InitBoth(first, second) ==
  /\ pool = NoPool
  /\ Alerts = <<>>
  /\ calls = <<>>
  /\ pc = [p \in Procs |-> "start"]
  /\ messages = [p \in Procs |-> IF p = "d1" THEN first ELSE second]
  /\ dbPool = [p \in Procs |-> NoPool]
  /\ mi = [p \in Procs |-> 0]
  /\ totalEventsInserted = [p \in Procs |-> 0]
  /\ eventsByHouse = [p \in Procs |-> <<>>]
  /\ hi = [p \in Procs |-> 0]
  /\ house = [p \in Procs |-> NoHouse]
  /\ birdAge = [p \in Procs |-> 0]
  /\ ei = [p \in Procs |-> 0]
  /\ request = [p \in Procs |-> NoRequest]

InitConcurrent ==
  /\ Houses \in HouseTables
  /\ Thresholds = BandedThresholds
  /\ \E second \in SecondDeliveries : InitBoth(FirstDelivery, second)

\* One delivery, on house data that the admin endpoint updates meanwhile.
EnvDeliveries == DeliveriesUpTo(MaxSize - 1)

InitEnv ==
  /\ Houses = PlainHouses
  /\ Thresholds = BandedThresholds
  /\ \E delivery \in EnvDeliveries : InitLocals(delivery)

\* Every policy for temperature, against every value of a single event.
InitEval ==
  /\ Houses = PlainHouses
  /\ \E policy \in Policies : Thresholds = TableOf(policy, policy)
  /\ \E delivery \in ProbeDeliveries : InitLocals(delivery)

(***************************************************************************)
(* The steps of a delivery.                                                *)
(***************************************************************************)
Call(p, op, m, h, e, ok, arg, result) ==
  [proc |-> p, op |-> op, mi |-> m, hi |-> h, ei |-> e, ok |-> ok, arg |-> arg,
   result |-> result]

CurrentMessage(p) == messages[p][mi[p]]
CurrentGroup(p) == eventsByHouse[p][hi[p]]
CurrentEvent(p) == CurrentGroup(p).houseEvents[ei[p]]

\* Lines 44-48 and getPool, lines 19-21: the pool is reused when it is set,
\* otherwise sql.connect is called and awaited.
Start(p) ==
  /\ pc[p] = "start"
  /\ IF pool # NoPool
     THEN /\ dbPool' = [dbPool EXCEPT ![p] = pool]
          /\ mi' = [mi EXCEPT ![p] = 1]
          /\ pc' = [pc EXCEPT ![p] = "nextMessage"]
     ELSE /\ pc' = [pc EXCEPT ![p] = "connecting"]
          /\ UNCHANGED <<dbPool, mi>>
  /\ UNCHANGED <<pool, Houses, Thresholds, Alerts, calls, messages, totalEventsInserted,
                 eventsByHouse, hi, house, birdAge, ei, request>>

\* Mutant of OuterCatch: the error is logged and not thrown again.
OuterCatch_Swallowed == "done"

\* Lines 84-87: the outer catch logs the error and throws it to the caller.
OuterCatch == "thrown"

\* Mutant of PoolAfterReject: a rejected connect leaves a pool object behind.
PoolAfterReject_Broken(old) == "broken"

\* Line 21: when sql.connect rejects, the await throws before the assignment
\* to pool is made.
PoolAfterReject(old) == old

\* Lines 21-24 and 48-49, or the rejection of sql.connect, which leaves the
\* handler through the outer catch.
ConnectReturn(p) ==
  /\ pc[p] = "connecting"
  /\ \/ /\ pool' = p
        /\ dbPool' = [dbPool EXCEPT ![p] = p]
        /\ mi' = [mi EXCEPT ![p] = 1]
        /\ calls' = Append(calls, Call(p, "connect", 0, 0, 0, TRUE, <<>>, <<>>))
        /\ pc' = [pc EXCEPT ![p] = "nextMessage"]
     \/ /\ calls' = Append(calls, Call(p, "connect", 0, 0, 0, FALSE, <<>>, <<>>))
        /\ pool' = PoolAfterReject(pool)
        /\ pc' = [pc EXCEPT ![p] = OuterCatch]
        /\ UNCHANGED <<dbPool, mi>>
  /\ UNCHANGED <<Houses, Thresholds, Alerts, messages, totalEventsInserted,
                 eventsByHouse, hi, house, birdAge, ei, request>>

\* Mutant of SkipMessage: the loop does not advance past the message.
SkipMessage_Stay(i) == i

\* Lines 58-61: `continue` takes the next message of the for-of of line 51.
SkipMessage(i) == i + 1

\* Lines 51-67 and 77-82: the head of the message loop, up to the insert-batch call.
NextMessage(p) ==
  /\ pc[p] = "nextMessage"
  /\ IF mi[p] > Len(messages[p])
     THEN /\ pc' = [pc EXCEPT ![p] = "done"]
          /\ UNCHANGED mi
     ELSE IF ~ParseMessage(CurrentMessage(p)).ok
     THEN /\ mi' = [mi EXCEPT ![p] = @ + 1]
          /\ UNCHANGED pc
     ELSE IF NoEventsArray(ParseMessage(CurrentMessage(p)).data)
     THEN /\ mi' = [mi EXCEPT ![p] = SkipMessage(@)]
          /\ UNCHANGED pc
     ELSE /\ pc' = [pc EXCEPT ![p] = "insertBatch"]
          /\ UNCHANGED mi
  /\ UNCHANGED <<pool, Houses, Thresholds, Alerts, calls, messages, dbPool,
                 totalEventsInserted, eventsByHouse, hi, house, birdAge, ei, request>>

\* What usp_InsertSensorEventBatch can return for a batch: no row, or one row
\* with the number of events it inserted.
InsertBatchRecordsets(events) ==
  {<<>>} \cup {<<[EventsInserted |-> n]>> : n \in 0..Len(events)}

\* Line 69: result.recordset[0]?.EventsInserted || 0
InsertedOf(recordset) ==
  IF Len(recordset) = 0 THEN 0 ELSE JsOr(Num(recordset[1].EventsInserted), Num(0))[1]

\* Mutant of AddInserted: the total is overwritten, = for +=.
AddInserted_Overwrite(total, inserted) == inserted

\* Line 70: totalEventsInserted += inserted
AddInserted(total, inserted) == total + inserted

\* Mutant of MessageCatch: the message is tried again.
MessageCatch_Retry(p) ==
  /\ pc' = [pc EXCEPT ![p] = "nextMessage"]
  /\ UNCHANGED <<mi, eventsByHouse, hi>>

\* Mutant of MessageCatch: the events are evaluated although the call threw.
MessageCatch_Evaluate(p) ==
  /\ eventsByHouse' = [eventsByHouse EXCEPT ![p] = GroupByHouse(EventsOf(messages[p][mi[p]]))]
  /\ hi' = [hi EXCEPT ![p] = 1]
  /\ pc' = [pc EXCEPT ![p] = "nextHouse"]
  /\ UNCHANGED mi

\* Lines 77-79: the catch inside the loop over the messages logs the error of
\* the insert-batch call, and the loop takes the next message.
MessageCatch(p) ==
  /\ mi' = [mi EXCEPT ![p] = @ + 1]
  /\ pc' = [pc EXCEPT ![p] = "nextMessage"]
  /\ UNCHANGED <<eventsByHouse, hi>>

\* Lines 65-79 and 97-102: the insert-batch call returns, the count is added
\* and checkThresholdViolations groups the events; or the call throws and the
\* catch of line 77 takes the next message.
InsertBatchReturn(p) ==
  /\ pc[p] = "insertBatch"
  /\ LET events == EventsOf(CurrentMessage(p)) IN
     \/ \E recordset \in InsertBatchRecordsets(events) :
          /\ calls' = Append(calls, Call(p, "insertBatch", mi[p], 0, 0, TRUE, events, recordset))
          /\ totalEventsInserted' = [totalEventsInserted EXCEPT ![p] =
                                        AddInserted(@, InsertedOf(recordset))]
          /\ eventsByHouse' = [eventsByHouse EXCEPT ![p] = GroupByHouse(events)]
          /\ hi' = [hi EXCEPT ![p] = 1]
          /\ pc' = [pc EXCEPT ![p] = "nextHouse"]
          /\ UNCHANGED mi
     \/ /\ calls' = Append(calls, Call(p, "insertBatch", mi[p], 0, 0, FALSE, events, <<>>))
        /\ MessageCatch(p)
        /\ UNCHANGED totalEventsInserted
  /\ UNCHANGED <<pool, Houses, Thresholds, Alerts, messages, dbPool, house, birdAge, ei,
                 request>>

\* Lines 104-113 and 75-76: the head of the house loop; after the last group
\* checkThresholdViolations returns and the message loop goes on.
NextHouse(p) ==
  /\ pc[p] = "nextHouse"
  /\ IF hi[p] > Len(eventsByHouse[p])
     THEN /\ eventsByHouse' = [eventsByHouse EXCEPT ![p] = <<>>]
          /\ hi' = [hi EXCEPT ![p] = 0]
          /\ mi' = [mi EXCEPT ![p] = @ + 1]
          /\ pc' = [pc EXCEPT ![p] = "nextMessage"]
     ELSE /\ pc' = [pc EXCEPT ![p] = "houseQuery"]
          /\ UNCHANGED <<eventsByHouse, hi, mi>>
  /\ UNCHANGED <<pool, Houses, Thresholds, Alerts, calls, messages, dbPool,
                 totalEventsInserted, house, birdAge, ei, request>>

\* Mutant of LeaveGroup: the group that follows is passed over.
LeaveGroup_SkipOne(p) ==
  /\ house' = [house EXCEPT ![p] = NoHouse]
  /\ birdAge' = [birdAge EXCEPT ![p] = 0]
  /\ ei' = [ei EXCEPT ![p] = 0]
  /\ hi' = [hi EXCEPT ![p] = @ + 2]
  /\ pc' = [pc EXCEPT ![p] = "nextHouse"]

\* Leaving a house group: the next group is taken (lines 104, 174-176).
LeaveGroup(p) ==
  /\ house' = [house EXCEPT ![p] = NoHouse]
  /\ birdAge' = [birdAge EXCEPT ![p] = 0]
  /\ ei' = [ei EXCEPT ![p] = 0]
  /\ hi' = [hi EXCEPT ![p] = @ + 1]
  /\ pc' = [pc EXCEPT ![p] = "nextHouse"]

\* Mutant of HouseCatch: the catch is around the loop over the house groups,
\* so that an error ends checkThresholdViolations.
HouseCatch_Abort(p) ==
  /\ house' = [house EXCEPT ![p] = NoHouse]
  /\ birdAge' = [birdAge EXCEPT ![p] = 0]
  /\ ei' = [ei EXCEPT ![p] = 0]
  /\ hi' = [hi EXCEPT ![p] = Len(eventsByHouse[p]) + 1]
  /\ pc' = [pc EXCEPT ![p] = "nextHouse"]

\* Lines 174-176: the catch inside the loop over the house groups logs the
\* error, and the loop takes the next group.
HouseCatch(p) == LeaveGroup(p)

\* Mutant of AfterSelect: the statement also clears the bird ages it read.
AfterSelect_Touch(table) ==
  {[HouseId |-> h.HouseId, DeviceId |-> h.DeviceId, BirdAgeInDays |-> NULL] : h \in table}

\* Lines 107-113: the statement is a SELECT, the Houses table is as before.
AfterSelect(table) == table

\* Lines 107-118 and 174-176: the house query returns its rows, or throws.
HouseQueryReturn(p) ==
  /\ pc[p] = "houseQuery"
  /\ LET houseId == CurrentGroup(p).houseId IN
     \/ \E recordset \in HouseRecordsets(Houses, houseId) :
          /\ calls' = Append(calls, Call(p, "houseQuery", mi[p], hi[p], 0, TRUE, houseId, recordset))
          /\ IF Len(recordset) = 0
             THEN /\ hi' = [hi EXCEPT ![p] = @ + 1]
                  /\ pc' = [pc EXCEPT ![p] = "nextHouse"]
                  /\ UNCHANGED <<house, birdAge, ei>>
             ELSE /\ house' = [house EXCEPT ![p] = recordset[1]]
                  /\ birdAge' = [birdAge EXCEPT ![p] =
                                   JsOr(recordset[1].BirdAgeInDays, Num(DefaultBirdAge))[1]]
                  /\ ei' = [ei EXCEPT ![p] = 1]
                  /\ pc' = [pc EXCEPT ![p] = "nextEvent"]
                  /\ UNCHANGED hi
     \/ /\ calls' = Append(calls, Call(p, "houseQuery", mi[p], hi[p], 0, FALSE, houseId, <<>>))
        /\ HouseCatch(p)
  /\ Houses' = AfterSelect(Houses)
  /\ UNCHANGED <<pool, Thresholds, Alerts, messages, dbPool, mi,
                 totalEventsInserted, eventsByHouse, request>>

\* Mutant of HasNoValue: the test of line 122 is missing.
HasNoValue_Never(event) == FALSE

\* Line 122: event.value === undefined || event.value === null
HasNoValue(event) == event.value = NULL

\* The next event of the group is taken (line 121): `continue`, or the end of the loop body.
ContinueEvent(p) ==
  /\ ei' = [ei EXCEPT ![p] = @ + 1]
  /\ pc' = [pc EXCEPT ![p] = "nextEvent"]
  /\ UNCHANGED <<house, birdAge, hi>>

\* Mutant of SkipUnmonitored: `break` for `continue`.
SkipUnmonitored_Break(p) == LeaveGroup(p)

\* Line 130: no policy row, the event is skipped.
SkipUnmonitored(p) == ContinueEvent(p)

\* Lines 121-128: the head of the event loop, up to the threshold lookup.
NextEvent(p) ==
  /\ pc[p] = "nextEvent"
  /\ IF ei[p] > Len(CurrentGroup(p).houseEvents)
     THEN LeaveGroup(p)
     ELSE IF HasNoValue(CurrentEvent(p))
     THEN ContinueEvent(p)
     ELSE /\ pc' = [pc EXCEPT ![p] = "thresholdLookup"]
          /\ UNCHANGED <<house, birdAge, hi, ei>>
  /\ UNCHANGED <<pool, Houses, Thresholds, Alerts, calls, messages, dbPool, mi,
                 totalEventsInserted, eventsByHouse, request>>

\* Mutant of LookupAge: the bird age is read from the Houses table again for
\* every event.
LookupAge_Reread(p) ==
  LET row == CHOOSE h \in Houses : h.HouseId = house[p].HouseId
  IN JsOr(row.BirdAgeInDays, Num(DefaultBirdAge))[1]

\* Line 127: .input("BirdAge", sql.Int, birdAge), the constant of line 118.
LookupAge(p) == birdAge[p]

\* Lines 125-165 and 174-176: the threshold lookup returns its rows and the
\* event is evaluated, up to the alert insert; or the lookup throws.
ThresholdReturn(p) ==
  /\ pc[p] = "thresholdLookup"
  /\ LET event == CurrentEvent(p)
         arg == <<event.eventType, LookupAge(p)>>
         recordset == Thresholds[arg]
     IN
     \/ /\ calls' = Append(calls, Call(p, "thresholdLookup", mi[p], hi[p], ei[p], TRUE, arg, recordset))
        /\ IF Len(recordset) = 0
           THEN /\ SkipUnmonitored(p)
                /\ UNCHANGED request
           ELSE IF EvaluateThreshold(recordset[1], event.value[1]).alertSeverity # NoSeverity
           THEN /\ request' = [request EXCEPT ![p] = <<AlertRow(house[p], event, recordset[1])>>]
                /\ pc' = [pc EXCEPT ![p] = "alertInsert"]
                /\ UNCHANGED <<house, birdAge, hi, ei>>
           ELSE /\ ContinueEvent(p)
                /\ UNCHANGED request
     \/ /\ calls' = Append(calls, Call(p, "thresholdLookup", mi[p], hi[p], ei[p], FALSE, arg, <<>>))
        /\ HouseCatch(p)
        /\ UNCHANGED request
  /\ UNCHANGED <<pool, Houses, Thresholds, Alerts, messages, dbPool, mi,
                 totalEventsInserted, eventsByHouse>>

\* Mutant of InsertAlert: a row equal to a stored one is not inserted again.
InsertAlert_Dedup(table, row) ==
  IF \E i \in 1..Len(table) : table[i] = row THEN table ELSE Append(table, row)

\* Mutant of InsertAlert: the statement replaces what is stored.
InsertAlert_Replace(table, row) == <<row>>

\* Lines 166-169: INSERT INTO Alerts ... VALUES (...), one row, no search before it.
InsertAlert(table, row) == Append(table, row)

\* Mutant of PendingRow: the request object is kept in one module-level slot,
\* which a second invocation reads while the first is awaited.
PendingRow_Shared(p) ==
  LET q == CHOOSE r \in Procs : request[r] # NoRequest IN request[q][1]

\* Lines 155-165: the request built by dbPool.request().input(...) is an
\* object of this invocation.
PendingRow(p) == request[p][1]

\* Lines 155-176: the alert insert adds its row, or throws.
AlertInsertReturn(p) ==
  /\ pc[p] = "alertInsert"
  /\ \/ /\ Alerts' = InsertAlert(Alerts, PendingRow(p))
        /\ calls' = Append(calls, Call(p, "alertInsert", mi[p], hi[p], ei[p], TRUE, PendingRow(p), <<>>))
        /\ ContinueEvent(p)
     \/ /\ calls' = Append(calls, Call(p, "alertInsert", mi[p], hi[p], ei[p], FALSE, PendingRow(p), <<>>))
        /\ HouseCatch(p)
        /\ UNCHANGED Alerts
  /\ request' = [request EXCEPT ![p] = NoRequest]
  /\ UNCHANGED <<pool, Houses, Thresholds, messages, dbPool, mi, totalEventsInserted,
                 eventsByHouse>>

(***************************************************************************)
(* updateHouse of the admin API (PUT manage/houses/{id}), another function *)
(* of the same app: a request with a birdAgeInDays sets the bird age of    *)
(* the house.  The other fields of the house are not in the model.         *)
(***************************************************************************)
updateHouse(houseId, birdAgeInDays) ==
  /\ \E h \in Houses : h.HouseId = houseId /\ h.BirdAgeInDays # Num(birdAgeInDays)
  /\ Houses' = {IF h.HouseId = houseId
                THEN [h EXCEPT !.BirdAgeInDays = Num(birdAgeInDays)] ELSE h : h \in Houses}
  /\ UNCHANGED <<pool, Thresholds, Alerts, calls, pc, messages, dbPool, mi,
                 totalEventsInserted, eventsByHouse, hi, house, birdAge, ei, request>>

Next ==
  \E p \in Procs :
    \/ Start(p)
    \/ ConnectReturn(p)
    \/ NextMessage(p)
    \/ InsertBatchReturn(p)
    \/ NextHouse(p)
    \/ HouseQueryReturn(p)
    \/ NextEvent(p)
    \/ ThresholdReturn(p)
    \/ AlertInsertReturn(p)

Spec == Init /\ [][Next]_vars

SpecEval == InitEval /\ [][Next]_vars
SpecConcurrent == InitConcurrent /\ [][Next]_vars

NextEnv ==
  \/ Next
  \/ \E houseId \in UuidStrings, birdAgeInDays \in LookupAges : updateHouse(houseId, birdAgeInDays)

SpecEnv == InitEnv /\ [][NextEnv]_vars

\* One delivery whose steps are never put off for ever: the runtime resumes the
\* handler whenever the store call it awaits has returned or failed, and every
\* store call does so in the end.
InitLive ==
  /\ Houses \in HouseTables
  /\ Thresholds = BandedThresholds
  /\ \E delivery \in EnvDeliveries : InitLocals(delivery)

SpecLive == InitLive /\ [][Next]_vars /\ WF_vars(Next)

(***************************************************************************)
(* Reading the history: the evaluations made, and what each one emitted.   *)
(***************************************************************************)
CallIndices(op) == {i \in 1..Len(calls) : calls[i].op = op}

\* The threshold lookups that returned a policy row: one per evaluated event.
Evaluations == {i \in CallIndices("thresholdLookup") : calls[i].ok /\ Len(calls[i].result) > 0}

PolicyOf(i) == calls[i].result[1]

\* The event a call was made for.
EventAt(c) == GroupByHouse(EventsOf(messages[c.proc][c.mi]))[c.hi].houseEvents[c.ei]
ValueOf(i) == EventAt(calls[i]).value[1]

SameEvent(c, d) == c.proc = d.proc /\ c.mi = d.mi /\ c.hi = d.hi /\ c.ei = d.ei

\* The alert inserts made for the event of call i, and the one still awaited.
AlertCallsFor(i) == {j \in CallIndices("alertInsert") : SameEvent(calls[j], calls[i])}
PendingFor(i) ==
  LET c == calls[i] IN
  pc[c.proc] = "alertInsert" /\ mi[c.proc] = c.mi /\ hi[c.proc] = c.hi /\ ei[c.proc] = c.ei

EmittedCount(i) == Cardinality(AlertCallsFor(i)) + (IF PendingFor(i) THEN 1 ELSE 0)
EmittedRows(i) ==
  {calls[j].arg : j \in AlertCallsFor(i)} \cup
  (IF PendingFor(i) THEN {request[calls[i].proc][1]} ELSE {})

\* The rows the alert inserts that returned have added, in order.
InsertedRows ==
  LET done == SelectSeq(calls, LAMBDA c : c.op = "alertInsert" /\ c.ok)
  IN [k \in 1..Len(done) |-> done[k].arg]

Above(value, bound) == bound # NULL /\ value > bound[1]
Below(value, bound) == bound # NULL /\ value < bound[1]

CriticalCrossed(t, v) == Above(v, t.criticalMax) \/ Below(v, t.criticalMin)
WarningCrossed(t, v) == Above(v, t.warningMax) \/ Below(v, t.warningMin)

\* The first of the four checks, in the order of the specification, that matches.
FirstMatch(t, v) ==
  IF Above(v, t.criticalMax) THEN "criticalMax"
  ELSE IF Below(v, t.criticalMin) THEN "criticalMin"
  ELSE IF Above(v, t.warningMax) THEN "warningMax"
  ELSE IF Below(v, t.warningMin) THEN "warningMin"
  ELSE "none"

SeverityFor(check) == IF check \in {"criticalMax", "criticalMin"} THEN "critical" ELSE "warning"
KindFor(check) ==
  CASE check = "criticalMax" -> "is critically high"
    [] check = "criticalMin" -> "is critically low"
    [] check = "warningMax" -> "is high"
    [] check = "warningMin" -> "is low"
BoundFor(check, t) ==
  CASE check = "criticalMax" -> t.criticalMax
    [] check = "criticalMin" -> t.criticalMin
    [] check = "warningMax" -> t.warningMax
    [] check = "warningMin" -> t.warningMin
CheckOfKind(kind) == CHOOSE check \in {"criticalMax", "criticalMin", "warningMax", "warningMin"} :
                       KindFor(check) = kind

(***************************************************************************)
(* C1: an event whose house resolves, whose policy is found and whose      *)
(* value is above the policy's non-null criticalMax has exactly one alert  *)
(* emitted for it, of severity "critical"; the rows of Alerts are the      *)
(* alerts whose insert returned.                                           *)
(***************************************************************************)
C1_AboveCriticalMaxOneCritical ==
  /\ \A i \in Evaluations :
       Above(ValueOf(i), PolicyOf(i).criticalMax) =>
         /\ EmittedCount(i) = 1
         /\ \A row \in EmittedRows(i) : row.Severity = "critical"
  /\ Alerts = InsertedRows

C1_Witness ==
  \E i \in Evaluations :
    /\ Above(ValueOf(i), PolicyOf(i).criticalMax)
    /\ Above(ValueOf(i), PolicyOf(i).warningMax)
    /\ \E j \in AlertCallsFor(i) : calls[j].ok /\ calls[j].arg.Severity = "critical"
    /\ Len(Alerts) = 1

(***************************************************************************)
(* C2: an emitted alert is "critical" exactly when the value is above a    *)
(* non-null criticalMax or below a non-null criticalMin, it is "warning"   *)
(* only when no critical bound is crossed and a warning bound is, and an   *)
(* event that crosses none of the four bounds has no alert.                *)
(***************************************************************************)
C2_SeverityMatchesCrossing ==
  \A i \in Evaluations :
    LET t == PolicyOf(i)
        v == ValueOf(i)
    IN /\ \A row \in EmittedRows(i) :
            /\ row.Severity \in {"critical", "warning"}
            /\ row.Severity = "critical" <=> CriticalCrossed(t, v)
            /\ row.Severity = "warning" => ~CriticalCrossed(t, v) /\ WarningCrossed(t, v)
       /\ (~CriticalCrossed(t, v) /\ ~WarningCrossed(t, v)) => EmittedCount(i) = 0

C2_Witness ==
  /\ \E i \in Evaluations :
       /\ PolicyOf(i).warningMin = Num(ValueOf(i))
       /\ PolicyOf(i).criticalMax = Num(ValueOf(i))
       /\ EmittedCount(i) = 0
       /\ pc[calls[i].proc] = "done"
  /\ Alerts = <<>>

(***************************************************************************)
(* C3: the four checks are made in the order criticalMax, criticalMin,     *)
(* warningMax, warningMin; the first that matches alone gives the alert    *)
(* its severity and the kind of its message, and no event has two alerts.  *)
(***************************************************************************)
C3_FirstMatchDecides ==
  \A i \in Evaluations :
    LET check == FirstMatch(PolicyOf(i), ValueOf(i)) IN
    /\ EmittedCount(i) = (IF check = "none" THEN 0 ELSE 1)
    /\ \A row \in EmittedRows(i) :
         /\ row.Severity = SeverityFor(check)
         /\ row.Message[2] = KindFor(check)

C3_Witness ==
  \E i \in Evaluations :
    /\ Above(ValueOf(i), PolicyOf(i).criticalMax)
    /\ Below(ValueOf(i), PolicyOf(i).criticalMin)
    /\ Above(ValueOf(i), PolicyOf(i).warningMax)
    /\ \E j \in AlertCallsFor(i) : calls[j].ok /\ calls[j].arg.Message[2] = "is critically high"

(***************************************************************************)
(* C4: a null bound is never crossed: the check that fired for an emitted  *)
(* alert is on a non-null bound, and a policy with four null bounds has    *)
(* no alert.                                                               *)
(***************************************************************************)
C4_NullBoundNeverCrossed ==
  \A i \in Evaluations :
    LET t == PolicyOf(i) IN
    /\ \A row \in EmittedRows(i) : BoundFor(CheckOfKind(row.Message[2]), t) # NULL
    /\ (t.criticalMax = NULL /\ t.criticalMin = NULL /\ t.warningMax = NULL /\
        t.warningMin = NULL) => EmittedCount(i) = 0

C4_Witness ==
  \E i \in Evaluations :
    LET t == PolicyOf(i) IN
    /\ t.criticalMax = NULL /\ t.criticalMin = NULL /\ t.warningMax = NULL
    /\ t.warningMin = NULL
    /\ ValueOf(i) > 0
    /\ EmittedCount(i) = 0
    /\ pc[calls[i].proc] = "done"

(***************************************************************************)
(* C5: the Threshold of every emitted alert is the bound that was crossed, *)
(* the one of the check that fired.                                        *)
(***************************************************************************)
C5_ThresholdIsCrossedBound ==
  \A i \in Evaluations :
    \A row \in EmittedRows(i) :
      row.Threshold = BoundFor(FirstMatch(PolicyOf(i), ValueOf(i)), PolicyOf(i))

(***************************************************************************)
(* C6: the message of every emitted alert has the kind of the check that   *)
(* fired, the observed value of the event, and as its threshold the bound  *)
(* of that check, with the policy's name and unit.                         *)
(***************************************************************************)
C6_MessageMatchesCheck ==
  \A i \in Evaluations :
    LET t == PolicyOf(i)
        check == FirstMatch(t, ValueOf(i))
    IN \A row \in EmittedRows(i) :
         /\ row.Value = EventAt(calls[i]).value
         /\ row.Message = <<t.name, KindFor(check), ValueOf(i), t.unit, "threshold",
                            BoundFor(check, t), t.unit>>

C6_Witness ==
  \E i \in Evaluations :
    /\ PolicyOf(i).criticalMax = Num(1)
    /\ PolicyOf(i).warningMax = Num(0)
    /\ ValueOf(i) = 2
    /\ \E j \in AlertCallsFor(i) :
         /\ calls[j].ok
         /\ calls[j].arg.Message[2] = "is critically high"
         /\ calls[j].arg.Message[3] = 2
         /\ calls[j].arg.Message[6] = Num(1)

(***************************************************************************)
(* Reading the history: the calls made for a message or a house group.     *)
(***************************************************************************)
CallsOf(p) == {i \in 1..Len(calls) : calls[i].proc = p}
CallsForMessage(p, m) == {i \in CallsOf(p) : calls[i].mi = m}
CallsForGroup(p, m, h) == {i \in CallsForMessage(p, m) : calls[i].hi = h}

\* A message that cannot be parsed, or whose data has no events array.
Malformed(message) ==
  \/ message.type = "string" /\ ~message.valid
  \/ ~message.value.hasEvents

MessageIndices(p) == 1..Len(messages[p])
GroupsOf(p, m) == GroupByHouse(messages[p][m].value.events)

\* No house has this identifier, as device identifier or as canonical id.
Unresolvable(houseId) ==
  \A row \in Houses : row.DeviceId # houseId /\ row.HouseId # houseId

\* The handler has left house group h of message m behind.
PastGroup(p, m, h) ==
  \/ pc[p] = "done"
  \/ mi[p] > m
  \/ mi[p] = m /\ hi[p] > h

RECURSIVE SumReturned(_, _)
SumReturned(p, n) ==
  IF n = 0 THEN 0
  ELSE SumReturned(p, n - 1) +
       (IF calls[n].proc = p /\ calls[n].op = "insertBatch" /\ calls[n].ok /\
           Len(calls[n].result) > 0
        THEN calls[n].result[1].EventsInserted ELSE 0)

(***************************************************************************)
(* C7: for a house group whose houseId resolves to no house, no threshold  *)
(* lookup and no alert insert is made or awaited, and once its house query *)
(* has returned the handler goes on past the group without throwing.       *)
(***************************************************************************)
C7_UnknownHouseSkipped ==
  \A p \in Procs : \A m \in MessageIndices(p) :
    ~Malformed(messages[p][m]) =>
      \A h \in 1..Len(GroupsOf(p, m)) :
        Unresolvable(GroupsOf(p, m)[h].houseId) =>
          /\ \A i \in CallsForGroup(p, m, h) : calls[i].op = "houseQuery"
          /\ ~(mi[p] = m /\ hi[p] = h /\ pc[p] \in {"nextEvent", "thresholdLookup", "alertInsert"})
          /\ \A i \in CallsForGroup(p, m, h) :
               calls[i].ok => pc[p] # "thrown" /\ PastGroup(p, m, h)

C7_Witness ==
  \E i \in CallIndices("houseQuery") :
    /\ Unresolvable(calls[i].arg)
    /\ calls[i].ok /\ Len(calls[i].result) = 0
    /\ pc[calls[i].proc] = "done"
    /\ \E j \in CallIndices("alertInsert") : j > i /\ calls[j].proc = calls[i].proc

(***************************************************************************)
(* C8: in a delivery with a malformed message (not parseable, or without   *)
(* an events array) no store call is made for that message, the handler    *)
(* does not throw once it has its pool, and when it returns every other    *)
(* message has had its insert-batch call, every house group of a message   *)
(* whose insert-batch call returned has had its house query, and the total *)
(* is the sum of the counts returned, to which that message adds nothing.  *)
(***************************************************************************)
C8_MalformedMessageIsolated ==
  \A p \in Procs :
    (\E m \in MessageIndices(p) : Malformed(messages[p][m])) =>
      /\ \A m \in MessageIndices(p) : Malformed(messages[p][m]) => CallsForMessage(p, m) = {}
      /\ pc[p] = "thrown" => mi[p] = 0
      /\ pc[p] = "done" =>
           /\ \A m \in MessageIndices(p) :
                ~Malformed(messages[p][m]) =>
                  /\ \E i \in CallsForMessage(p, m) :
                       /\ calls[i].op = "insertBatch"
                       /\ calls[i].arg = messages[p][m].value.events
                       /\ calls[i].ok =>
                            \A h \in 1..Len(GroupsOf(p, m)) :
                              \E j \in CallsForGroup(p, m, h) : calls[j].op = "houseQuery"
           /\ totalEventsInserted[p] = SumReturned(p, Len(calls))

C8_Witness ==
  \E p \in Procs :
    /\ pc[p] = "done"
    /\ Len(messages[p]) = 3
    /\ messages[p][1] = NotJson
    /\ ~Malformed(messages[p][2])
    /\ ~messages[p][3].value.hasEvents
    /\ totalEventsInserted[p] = 1
    /\ Len(Alerts) = 1

(***************************************************************************)
(* C9: when the connection cannot be established the handler throws, and   *)
(* no message of the delivery is persisted or evaluated: the delivery      *)
(* makes no other store call and adds no alert.                            *)
(***************************************************************************)
C9_ConnectFailureThrows ==
  \A p \in Procs :
    (\E i \in CallsOf(p) : calls[i].op = "connect" /\ ~calls[i].ok) =>
      /\ pc[p] = "thrown"
      /\ mi[p] = 0
      /\ \A i \in CallsOf(p) : calls[i].op = "connect"
      /\ \A i \in CallIndices("alertInsert") : calls[i].proc # p

C9_Witness ==
  \E p \in Procs :
    /\ pc[p] = "thrown"
    /\ pool = NoPool
    /\ \E m \in MessageIndices(p) : ~Malformed(messages[p][m])
    /\ Len(calls) = 1 /\ calls[1].op = "connect" /\ ~calls[1].ok

(***************************************************************************)
(* C10: when the insert-batch call of a message fails, the failure leaves  *)
(* the handler, which throws and makes no further store call for the       *)
(* delivery.                                                               *)
(***************************************************************************)
C10_InsertBatchFailureAborts ==
  \A p \in Procs :
    \A i \in CallsOf(p) :
      (calls[i].op = "insertBatch" /\ ~calls[i].ok) =>
        /\ pc[p] = "thrown"
        /\ \A j \in CallsOf(p) : j <= i

(***************************************************************************)
(* History of a house group: the events of the group, the house its query  *)
(* returned, and which of its events cross a bound of their policy.        *)
(***************************************************************************)
GroupEvents(p, m, h) == GroupsOf(p, m)[h].houseEvents

\* The event has a numeric value, and a policy of which it crosses a bound.
Violating(event, age) ==
  /\ event.value # NULL
  /\ <<event.eventType, age>> \in DOMAIN Thresholds
  /\ Len(Thresholds[<<event.eventType, age>>]) > 0
  /\ FirstMatch(Thresholds[<<event.eventType, age>>][1], event.value[1]) # "none"

HasAlertCall(p, m, h, e) ==
  \E j \in CallsForGroup(p, m, h) : calls[j].op = "alertInsert" /\ calls[j].ei = e

\* The bird age the lookups of group h were made with.
AgeUsed(p, m, h) ==
  LET i == CHOOSE j \in CallsForGroup(p, m, h) : calls[j].op = "thresholdLookup"
  IN calls[i].arg[2]

(***************************************************************************)
(* C11: when the threshold lookup or the alert insert of an event throws,  *)
(* then once the handler has left the house group behind, every later      *)
(* event of the group that crosses a bound of its policy has had its alert *)
(* insert.                                                                 *)
(***************************************************************************)
C11_LaterSiblingsStillAlerted ==
  \A i \in CallIndices("thresholdLookup") \cup CallIndices("alertInsert") :
    LET c == calls[i] IN
    (~c.ok /\ PastGroup(c.proc, c.mi, c.hi)) =>
      \A e \in (c.ei + 1)..Len(GroupEvents(c.proc, c.mi, c.hi)) :
        Violating(GroupEvents(c.proc, c.mi, c.hi)[e], AgeUsed(c.proc, c.mi, c.hi)) =>
          HasAlertCall(c.proc, c.mi, c.hi, e)

HasLookupCall(p, m, h, e) ==
  \E j \in CallsForGroup(p, m, h) : calls[j].op = "thresholdLookup" /\ calls[j].ei = e

\* The house query of group h returned a house, and no call of the group failed.
GroupUndisturbed(p, m, h) ==
  /\ \E j \in CallsForGroup(p, m, h) :
       calls[j].op = "houseQuery" /\ calls[j].ok /\ Len(calls[j].result) > 0
  /\ \A j \in CallsForGroup(p, m, h) : calls[j].ok

\* Every event of group h with a numeric value had its lookup, and every one
\* that crosses a bound of its policy had its alert insert.
GroupEvaluated(p, m, h) ==
  \A e \in 1..Len(GroupEvents(p, m, h)) :
    LET event == GroupEvents(p, m, h)[e] IN
    /\ event.value # NULL => HasLookupCall(p, m, h, e)
    /\ Violating(event, AgeUsed(p, m, h)) => HasAlertCall(p, m, h, e)

(***************************************************************************)
(* C12: when the house query, a threshold lookup or an alert insert of a   *)
(* house group throws, the handler does not throw, and every later house   *)
(* group of the message that it has left behind has had its house query    *)
(* and, when that returned a house and no call of that group failed, the   *)
(* lookups and alert inserts of its events.                                *)
(***************************************************************************)
C12_HouseFailureIsolated ==
  \A i \in CallIndices("houseQuery") \cup CallIndices("thresholdLookup")
             \cup CallIndices("alertInsert") :
    LET c == calls[i] IN
    ~c.ok =>
      /\ pc[c.proc] # "thrown"
      /\ \A h \in (c.hi + 1)..Len(GroupsOf(c.proc, c.mi)) :
           PastGroup(c.proc, c.mi, h) =>
             /\ \E j \in CallsForGroup(c.proc, c.mi, h) : calls[j].op = "houseQuery"
             /\ GroupUndisturbed(c.proc, c.mi, h) => GroupEvaluated(c.proc, c.mi, h)

C12_Witness ==
  \E i \in CallIndices("thresholdLookup") :
    /\ ~calls[i].ok /\ calls[i].hi = 1
    /\ pc[calls[i].proc] = "done"
    /\ \E j \in CallIndices("alertInsert") :
         /\ j > i /\ calls[j].ok
         /\ calls[j].proc = calls[i].proc /\ calls[j].mi = calls[i].mi /\ calls[j].hi = 2

\* The house the query of group h returned as its first row.
HouseQueryOf(p, m, h) ==
  CHOOSE j \in CallsForGroup(p, m, h) : calls[j].op = "houseQuery"

(***************************************************************************)
(* C14: every threshold lookup is made with the stored bird age of the     *)
(* house its group resolved to when that stored value is not null, 0       *)
(* included, and with 21 when the stored value is null.                    *)
(***************************************************************************)
C14_BirdAgeIsStoredUnlessNull ==
  \A i \in CallIndices("thresholdLookup") :
    LET c == calls[i]
        stored == calls[HouseQueryOf(c.proc, c.mi, c.hi)].result[1].BirdAgeInDays
    IN IF stored = NULL THEN c.arg[2] = 21 ELSE c.arg[2] = stored[1]

(***************************************************************************)
(* C15: when a house query returns rows and some house has the inbound     *)
(* houseId as its device identifier, the house taken (the first row) is    *)
(* one with that device identifier; a house matched by its canonical id is *)
(* taken only when no house has that device identifier.                    *)
(***************************************************************************)
C15_DeviceIdPreferred ==
  \A i \in CallIndices("houseQuery") :
    LET c == calls[i] IN
    (c.ok /\ Len(c.result) > 0 /\ \E row \in Houses : row.DeviceId = c.arg) =>
      c.result[1].DeviceId = c.arg

\* The events of the group before event e all went through without a failure,
\* so that the loop over the events reached event e.
ReachedEvent(p, m, h, e) ==
  /\ \E j \in CallsForGroup(p, m, h) :
       calls[j].op = "houseQuery" /\ calls[j].ok /\ Len(calls[j].result) > 0
  /\ \A j \in CallsForGroup(p, m, h) : calls[j].ei < e => calls[j].ok

(***************************************************************************)
(* C16: for an event without a numeric value no threshold lookup and no    *)
(* alert insert is made or awaited, and once the handler has left its      *)
(* house group behind, the event that follows it, when it has a numeric    *)
(* value and the loop reached the valueless event, has had its lookup.     *)
(***************************************************************************)
C16_ValuelessEventSkipped ==
  \A p \in Procs : \A m \in MessageIndices(p) :
    ~Malformed(messages[p][m]) =>
      \A h \in 1..Len(GroupsOf(p, m)) : \A e \in 1..Len(GroupEvents(p, m, h)) :
        GroupEvents(p, m, h)[e].value = NULL =>
          /\ \A j \in CallsForGroup(p, m, h) : calls[j].ei # e
          /\ ~(mi[p] = m /\ hi[p] = h /\ ei[p] = e /\ pc[p] \in {"thresholdLookup", "alertInsert"})
          /\ (PastGroup(p, m, h) /\ pc[p] # "thrown" /\ ReachedEvent(p, m, h, e)
                /\ (\E j \in CallsForMessage(p, m) : calls[j].op = "insertBatch" /\ calls[j].ok)) =>
               \A f \in (e + 1)..Len(GroupEvents(p, m, h)) :
                 (GroupEvents(p, m, h)[f].value # NULL /\ ReachedEvent(p, m, h, f)) =>
                   HasLookupCall(p, m, h, f)

C16_Witness ==
  \E p \in Procs : \E m \in MessageIndices(p) :
    /\ ~Malformed(messages[p][m])
    /\ pc[p] = "done"
    /\ Len(GroupsOf(p, m)) = 1 /\ Len(GroupEvents(p, m, 1)) = 2
    /\ GroupEvents(p, m, 1)[1].value = NULL
    /\ \E j \in CallsForGroup(p, m, 1) :
         calls[j].op = "alertInsert" /\ calls[j].ei = 2 /\ calls[j].ok
    /\ \A j \in CallsForGroup(p, m, 1) : calls[j].ei # 1

(***************************************************************************)
(* C17: when a threshold lookup returns no policy row, no alert insert is  *)
(* made or awaited for the event and the handler does not throw; once the  *)
(* handler has left the house group behind, the later events of the group  *)
(* that have a numeric value and were reached have had their lookup, and   *)
(* the later house groups that it has left behind have had their house     *)
(* query and, undisturbed, their evaluation.                               *)
(***************************************************************************)
C17_NoPolicyNoAlertNoError ==
  \A i \in CallIndices("thresholdLookup") :
    LET c == calls[i] IN
    (c.ok /\ Len(c.result) = 0) =>
      /\ AlertCallsFor(i) = {}
      /\ ~(mi[c.proc] = c.mi /\ hi[c.proc] = c.hi /\ ei[c.proc] = c.ei
             /\ pc[c.proc] = "alertInsert")
      /\ pc[c.proc] # "thrown"
      /\ PastGroup(c.proc, c.mi, c.hi) =>
           /\ \A f \in (c.ei + 1)..Len(GroupEvents(c.proc, c.mi, c.hi)) :
                (GroupEvents(c.proc, c.mi, c.hi)[f].value # NULL
                   /\ ReachedEvent(c.proc, c.mi, c.hi, f)) =>
                  HasLookupCall(c.proc, c.mi, c.hi, f)
      /\ \A h \in (c.hi + 1)..Len(GroupsOf(c.proc, c.mi)) :
           PastGroup(c.proc, c.mi, h) =>
             /\ \E j \in CallsForGroup(c.proc, c.mi, h) : calls[j].op = "houseQuery"
             /\ GroupUndisturbed(c.proc, c.mi, h) => GroupEvaluated(c.proc, c.mi, h)

C17_Witness ==
  \E i \in CallIndices("thresholdLookup") :
    LET c == calls[i] IN
    /\ c.ok /\ Len(c.result) = 0 /\ c.hi = 1 /\ c.ei = 1
    /\ pc[c.proc] = "done"
    /\ \E j \in CallsForGroup(c.proc, c.mi, 1) :
         calls[j].op = "alertInsert" /\ calls[j].ei = 2 /\ calls[j].ok
    /\ \E j \in CallsForGroup(c.proc, c.mi, 2) : calls[j].op = "alertInsert" /\ calls[j].ok

\* The count message m of the delivery contributes: the one its insert-batch
\* call returned, 0 when there was no such call, it threw or returned no row.
CountFor(p, m) ==
  LET returned == {i \in CallsForMessage(p, m) :
                     calls[i].op = "insertBatch" /\ calls[i].ok /\ Len(calls[i].result) > 0}
  IN IF returned = {} THEN 0
     ELSE LET i == CHOOSE j \in returned : TRUE IN calls[i].result[1].EventsInserted

RECURSIVE SumOverMessages(_, _)
SumOverMessages(p, n) ==
  IF n = 0 THEN 0 ELSE SumOverMessages(p, n - 1) + CountFor(p, n)

(***************************************************************************)
(* C20: when the handler returns, its total is the sum, over the messages  *)
(* of the delivery, of the count the insert-batch call of the message      *)
(* returned; a malformed message, for which no call is made, and a message *)
(* whose insert-batch call threw contribute 0.                             *)
(***************************************************************************)
C20_TotalIsSumOfReturnedCounts ==
  \A p \in Procs :
    pc[p] = "done" =>
      /\ totalEventsInserted[p] = SumOverMessages(p, Len(messages[p]))
      /\ \A m \in MessageIndices(p) :
           (\/ Malformed(messages[p][m])
            \/ \E i \in CallsForMessage(p, m) : calls[i].op = "insertBatch" /\ ~calls[i].ok) =>
             CountFor(p, m) = 0

C20_Witness ==
  \E p \in Procs :
    /\ pc[p] = "done"
    /\ Len(messages[p]) = 2
    /\ CountFor(p, 1) = 1 /\ CountFor(p, 2) = 1
    /\ totalEventsInserted[p] = 2

(***************************************************************************)
(* C18: over every interleaving of the deliveries, sql.connect succeeds at *)
(* most once, no two deliveries await it at the same time, and all the     *)
(* deliveries that have a pool have the same one.                          *)
(***************************************************************************)
C18_PoolEstablishedOnce ==
  /\ \A i \in CallIndices("connect") : \A j \in CallIndices("connect") :
       (calls[i].ok /\ calls[j].ok) => i = j
  /\ \A p \in Procs : \A q \in Procs :
       /\ (pc[p] = "connecting" /\ pc[q] = "connecting") => p = q
       /\ (dbPool[p] # NoPool /\ dbPool[q] # NoPool) => dbPool[p] = dbPool[q]

(***************************************************************************)
(* History of a whole processing: its alert rows in the order of their     *)
(* inserts, its insert-batch calls, and the answers its house queries got. *)
(***************************************************************************)
RECURSIVE RowsUpTo(_, _)
RowsUpTo(p, n) ==
  IF n = 0 THEN <<>>
  ELSE IF calls[n].proc = p /\ calls[n].op = "alertInsert" /\ calls[n].ok
       THEN Append(RowsUpTo(p, n - 1), calls[n].arg)
       ELSE RowsUpTo(p, n - 1)

RowsOf(p) == RowsUpTo(p, Len(calls))

InsertBatchCalls(p, m) == {i \in CallsForMessage(p, m) : calls[i].op = "insertBatch"}

\* Every store call of the processing returned.
AllReturned(p) == \A i \in CallsOf(p) : calls[i].ok

\* The two processings got the same rows from the house query of each group.
SameHouseAnswers(p, q) ==
  \A i \in CallsOf(p) : \A j \in CallsOf(q) :
    (calls[i].op = "houseQuery" /\ calls[j].op = "houseQuery"
       /\ calls[i].mi = calls[j].mi /\ calls[i].hi = calls[j].hi) =>
      calls[i].result = calls[j].result

\* The last call the processing made before its call i.
PreviousCall(p, i) ==
  LET before == {j \in CallsOf(p) : j < i} IN
  CHOOSE j \in before : \A k \in before : k <= j

(***************************************************************************)
(* C13: when the same delivery has been processed twice on the same house  *)
(* and policy data, every store call returning and the house queries       *)
(* answering the same, each processing made one insert-batch call for each *)
(* well-formed message, with the events of the message; the second created *)
(* the same alert rows as the first, so that the alerts are twice those of *)
(* one processing; and every alert insert directly follows the threshold   *)
(* lookup of its event, with no other store call in between.               *)
(***************************************************************************)
C13_NoDeduplication ==
  /\ (/\ messages["d1"] = messages["d2"]
      /\ pc["d1"] = "done" /\ pc["d2"] = "done"
      /\ AllReturned("d1") /\ AllReturned("d2")
      /\ SameHouseAnswers("d1", "d2")) =>
       /\ \A p \in Procs : \A m \in MessageIndices(p) :
            ~Malformed(messages[p][m]) =>
              /\ Cardinality(InsertBatchCalls(p, m)) = 1
              /\ \A i \in InsertBatchCalls(p, m) : calls[i].arg = messages[p][m].value.events
       /\ RowsOf("d2") = RowsOf("d1")
       /\ Len(Alerts) = 2 * Len(RowsOf("d1"))
       /\ \A k \in 1..Len(RowsOf("d1")) :
            Cardinality({n \in 1..Len(Alerts) : Alerts[n] = RowsOf("d1")[k]})
              = 2 * Cardinality({n \in 1..Len(RowsOf("d1")) : RowsOf("d1")[n] = RowsOf("d1")[k]})
  /\ \A i \in CallIndices("alertInsert") :
       LET j == PreviousCall(calls[i].proc, i) IN
       calls[j].op = "thresholdLookup" /\ SameEvent(calls[j], calls[i])

C13_Witness ==
  /\ messages["d1"] = messages["d2"]
  /\ pc["d1"] = "done" /\ pc["d2"] = "done"
  /\ AllReturned("d1") /\ AllReturned("d2")
  /\ Len(RowsOf("d1")) = 1
  /\ Len(Alerts) = 2 /\ Alerts[1] = Alerts[2]
  /\ calls[Len(calls)].proc = "d2"
  /\ \A i \in CallsOf("d1") : \A j \in CallsOf("d2") : i < j

\* The policy row the store holds for an event of a house group of the processing.
PolicyFor(p, m, h, e) ==
  Thresholds[<<GroupEvents(p, m, h)[e].eventType, AgeUsed(p, m, h)>>][1]

\* The events of the processing that cross a bound of their policy, given the
\* house their group resolved to.
ViolatingEvents(p) ==
  {c \in UNION {UNION {{<<m, h, e>> : e \in 1..Len(GroupEvents(p, m, h))} :
                         h \in 1..Len(GroupsOf(p, m))} :
                  m \in {n \in MessageIndices(p) : ~Malformed(messages[p][n])}} :
     /\ \E j \in CallsForGroup(p, c[1], c[2]) :
          calls[j].op = "houseQuery" /\ Len(calls[j].result) > 0
     /\ \E j \in CallsForGroup(p, c[1], c[2]) : calls[j].op = "thresholdLookup"
     /\ Violating(GroupEvents(p, c[1], c[2])[c[3]], AgeUsed(p, c[1], c[2]))}

\* The alert row of such an event, as the delivery creates it when run alone.
RowAlone(p, c) ==
  AlertRow(calls[HouseQueryOf(p, c[1], c[2])].result[1],
           GroupEvents(p, c[1], c[2])[c[3]], PolicyFor(p, c[1], c[2], c[3]))

RowsAlone(p) == {RowAlone(p, c) : c \in ViolatingEvents(p)}

CountAlone(p, row) == Cardinality({c \in ViolatingEvents(p) : RowAlone(p, c) = row})

CountStored(row) == Cardinality({n \in 1..Len(Alerts) : Alerts[n] = row})

(***************************************************************************)
(* C19: when two deliveries have been processed concurrently and every     *)
(* store call returned, then whatever the interleaving, each alert row is  *)
(* stored as many times as the two deliveries create it when run alone,    *)
(* no other row is stored, and the insert-batch calls are one for each     *)
(* well-formed message of either delivery, with the events of the message. *)
(***************************************************************************)
C19_InterleavingPreservesEffects ==
  (/\ pc["d1"] = "done" /\ pc["d2"] = "done"
   /\ AllReturned("d1") /\ AllReturned("d2")) =>
    /\ \A row \in RowsAlone("d1") \cup RowsAlone("d2") \cup {Alerts[n] : n \in 1..Len(Alerts)} :
         CountStored(row) = CountAlone("d1", row) + CountAlone("d2", row)
    /\ \A i \in CallIndices("insertBatch") :
         /\ ~Malformed(messages[calls[i].proc][calls[i].mi])
         /\ calls[i].arg = messages[calls[i].proc][calls[i].mi].value.events
         /\ \A j \in CallIndices("insertBatch") :
              (calls[j].proc = calls[i].proc /\ calls[j].mi = calls[i].mi) => j = i
    /\ \A p \in Procs : \A m \in MessageIndices(p) :
         ~Malformed(messages[p][m]) => InsertBatchCalls(p, m) # {}

C19_Witness ==
  /\ pc["d1"] = "done" /\ pc["d2"] = "done"
  /\ AllReturned("d1") /\ AllReturned("d2")
  /\ Len(Alerts) = 2 /\ Alerts[1] # Alerts[2]
  /\ Alerts[1] \in RowsAlone("d2") /\ Alerts[2] \in RowsAlone("d1")
  /\ \E i \in CallsOf("d1") : \E j \in CallsOf("d2") : \E k \in CallsOf("d1") :
       i < j /\ j < k /\ calls[i].op = "thresholdLookup" /\ calls[k].op = "alertInsert"

(***************************************************************************)
(* Steps that add a store call to the history.                             *)
(***************************************************************************)
CallAdded == Len(calls') = Len(calls) + 1
NewCall == calls'[Len(calls')]

\* Two calls of the same operation for the same message, house group and
\* event of the same delivery.
SameCallSite(c, d) == c.op = d.op /\ SameEvent(c, d)

(***************************************************************************)
(* C21: no step issues a store call that the delivery has issued before    *)
(* for the same message, house group and event, whether that earlier call  *)
(* returned or threw: the insert-batch call is made at most once for a     *)
(* message, the house query at most once for a house group, the threshold  *)
(* lookup and the alert insert at most once for an event.                  *)
(***************************************************************************)
C21_NoLocalRetry ==
  [][CallAdded => \A i \in 1..Len(calls) : ~SameCallSite(calls[i], NewCall)]_vars

C21_Witness ==
  \E p \in Procs :
    /\ pc[p] = "done"
    /\ \E i \in CallsOf(p) : calls[i].op = "insertBatch" /\ ~calls[i].ok
    /\ \E i \in CallsOf(p) : calls[i].op = "houseQuery" /\ ~calls[i].ok

\* The alerts stored before the step are still there after it, unchanged and
\* in the same places.
AlertsKept ==
  /\ Len(Alerts') >= Len(Alerts)
  /\ \A n \in 1..Len(Alerts) : Alerts'[n] = Alerts[n]

(***************************************************************************)
(* C22: in every reachable state every stored alert has type "threshold"   *)
(* and the active flag set, and no step removes or changes a stored alert: *)
(* the alerts only grow.                                                   *)
(***************************************************************************)
C22_AlertsOnlyAddedAndActive ==
  /\ [](\A n \in 1..Len(Alerts) : Alerts[n].Type = "threshold" /\ Alerts[n].IsActive = 1)
  /\ [][AlertsKept]_vars

C22_Witness ==
  /\ Len(Alerts) = 2
  /\ Alerts[1].Severity = "critical" /\ Alerts[2].Severity = "warning"
  /\ \A n \in 1..Len(Alerts) : Alerts[n].IsActive = 1
  /\ \E p \in Procs : pc[p] = "done"

\* Call d is made for a place of the delivery that is not after that of call c:
\* an earlier message, or the same message and an earlier house group (the
\* insert-batch call counting as before every group), or the same group and
\* an earlier or the same event (the house query counting as before every event).
NotAfter(d, c) ==
  \/ d.mi < c.mi
  \/ d.mi = c.mi /\ d.hi < c.hi
  \/ d.mi = c.mi /\ d.hi = c.hi /\ d.ei <= c.ei

EarlierCalls(p) == {i \in 1..Len(calls) : calls[i].proc = p}

\* What holds of a store call at the moment it is added to the history.
InSequence(c) ==
  LET p == c.proc IN
  /\ \A i \in EarlierCalls(p) : NotAfter(calls[i], c)
  /\ c.op \in {"houseQuery", "thresholdLookup", "alertInsert"} =>
       \E i \in EarlierCalls(p) :
         calls[i].op = "insertBatch" /\ calls[i].mi = c.mi /\ calls[i].ok
  /\ (c.op = "houseQuery" /\ c.hi > 1) =>
       \E i \in EarlierCalls(p) :
         calls[i].op = "houseQuery" /\ calls[i].mi = c.mi /\ calls[i].hi = c.hi - 1
  /\ c.op = "insertBatch" =>
       \A m \in 1..(c.mi - 1) :
         ~Malformed(messages[p][m]) =>
           \E i \in EarlierCalls(p) :
             /\ calls[i].op = "insertBatch" /\ calls[i].mi = m
             /\ calls[i].ok =>
                  \A h \in 1..Len(GroupsOf(p, m)) :
                    \E j \in EarlierCalls(p) :
                      calls[j].op = "houseQuery" /\ calls[j].mi = m /\ calls[j].hi = h

(***************************************************************************)
(* C23: every store call of a delivery is made for a place that is not     *)
(* before that of any call the delivery made earlier (messages in delivery *)
(* order, then house groups, then events); a call of the evaluation is     *)
(* made only after the insert-batch call of its message returned; the      *)
(* house query of a group follows that of the group before it; and the     *)
(* insert-batch call of a message is made only after every well-formed     *)
(* message before it had its insert-batch call and, when that returned,    *)
(* the house query of each of its groups.                                  *)
(***************************************************************************)
C23_StrictlySequential ==
  [][(CallAdded /\ NewCall.op # "connect") => InSequence(NewCall)]_vars

C23_Witness ==
  \E p \in Procs :
    /\ pc[p] = "done"
    /\ Len(messages[p]) = 2
    /\ ~Malformed(messages[p][1]) /\ Len(GroupsOf(p, 1)) = 2
    /\ \E i \in CallsForGroup(p, 1, 1) : calls[i].op = "alertInsert"
    /\ \E i \in CallsForGroup(p, 1, 2) : calls[i].op = "alertInsert"
    /\ \E i \in CallsForMessage(p, 2) : calls[i].op = "insertBatch"

\* The events of a house in a list of events, in the order of the list.
EventsOfHouse(events, houseId) ==
  LET OfHouse(event) == event.houseId = houseId IN SelectSeq(events, OfHouse)

\* The place where a houseId first appears in a list of events.
FirstSeen(events, houseId) ==
  CHOOSE i \in 1..Len(events) :
    /\ events[i].houseId = houseId
    /\ \A j \in 1..(i - 1) : events[j].houseId # houseId

\* The groups are a stable partition of the events by houseId.
StablePartition(groups, events) ==
  /\ \A g \in 1..Len(groups) : \A k \in 1..Len(groups) :
       groups[g].houseId = groups[k].houseId => g = k
  /\ \A i \in 1..Len(events) : \E g \in 1..Len(groups) : groups[g].houseId = events[i].houseId
  /\ \A g \in 1..Len(groups) :
       /\ groups[g].houseEvents # <<>>
       /\ groups[g].houseEvents = EventsOfHouse(events, groups[g].houseId)
  /\ \A g \in 1..Len(groups) : \A k \in 1..Len(groups) :
       g < k => FirstSeen(events, groups[g].houseId) < FirstSeen(events, groups[k].houseId)

(***************************************************************************)
(* C24: while a message is evaluated, its house groups are a stable        *)
(* partition of its events: one group for each houseId, holding exactly    *)
(* the events of that houseId in their order in the message, the groups in *)
(* the order in which their houseId first appears; and the alert inserts   *)
(* of a house group are made in the order of its events.                   *)
(***************************************************************************)
C24_GroupingIsStablePartition ==
  /\ \A p \in Procs :
       pc[p] \in {"nextHouse", "houseQuery", "nextEvent", "thresholdLookup", "alertInsert"} =>
         StablePartition(eventsByHouse[p], messages[p][mi[p]].value.events)
  /\ \A i \in CallIndices("alertInsert") : \A j \in CallIndices("alertInsert") :
       (i < j /\ calls[i].proc = calls[j].proc /\ calls[i].mi = calls[j].mi
          /\ calls[i].hi = calls[j].hi) =>
         /\ calls[i].ei < calls[j].ei
         /\ calls[i].arg.Value = EventAt(calls[i]).value

C24_Witness ==
  \E p \in Procs :
    /\ pc[p] = "alertInsert" /\ hi[p] = 2
    /\ Len(eventsByHouse[p]) = 2
    /\ Len(eventsByHouse[p][1].houseEvents) = 2
    /\ messages[p][mi[p]].value.events[2].houseId = eventsByHouse[p][2].houseId
    /\ Len(Alerts) = 2

\* The operations the handler calls on the store.
StoreOperations == {"connect", "insertBatch", "houseQuery", "thresholdLookup", "alertInsert"}

\* The step leaves the house and policy data as they are, and writes to the
\* store, if at all, by an insert-batch call or an alert insert.
ReferenceDataKept ==
  /\ Houses' = Houses
  /\ Thresholds' = Thresholds
  /\ Alerts' # Alerts => CallAdded /\ NewCall.op = "alertInsert" /\ NewCall.ok
  /\ CallAdded => NewCall.op \in StoreOperations

(***************************************************************************)
(* C25: no step of the handler changes a house record or a threshold       *)
(* policy; the alerts change only by an alert insert that returned, and    *)
(* every store call is a connect, an insert-batch call, a house query, a   *)
(* threshold lookup or an alert insert.                                    *)
(***************************************************************************)
C25_ReferenceDataUnchanged == [][ReferenceDataKept]_vars

C25_Witness ==
  \E p \in Procs :
    /\ pc[p] = "done"
    /\ \A op \in StoreOperations : \E i \in CallsOf(p) : calls[i].op = op /\ calls[i].ok
    /\ Houses \in HouseTables /\ Thresholds = BandedThresholds
    /\ Len(Alerts) > 0

\* The value is at or under a max bound, at or over a min bound, or the bound is null.
WithinMax(v, bound) == bound = NULL \/ v <= bound[1]
WithinMin(v, bound) == bound = NULL \/ v >= bound[1]

\* The value lies on or inside every bound of the policy that is not null.
OnOrInsideAll(t, v) ==
  /\ WithinMax(v, t.criticalMax) /\ WithinMin(v, t.criticalMin)
  /\ WithinMax(v, t.warningMax) /\ WithinMin(v, t.warningMin)

(***************************************************************************)
(* C26: a value equal to a bound does not cross it.  An event whose value  *)
(* equals criticalMax and is not under criticalMin, or equals criticalMin  *)
(* and is not over criticalMax, has no critical alert; an event whose      *)
(* value is on or inside every non-null bound of its policy has no alert.  *)
(***************************************************************************)
C26_EqualToBoundIsNotCrossing ==
  \A i \in Evaluations :
    LET t == PolicyOf(i)
        v == ValueOf(i)
    IN /\ ((t.criticalMax = Num(v) /\ WithinMin(v, t.criticalMin))
             \/ (t.criticalMin = Num(v) /\ WithinMax(v, t.criticalMax))) =>
            \A row \in EmittedRows(i) : row.Severity # "critical"
       /\ OnOrInsideAll(t, v) => EmittedRows(i) = {} /\ EmittedCount(i) = 0

C26_Witness ==
  \E i \in Evaluations :
    /\ PolicyOf(i).criticalMax = Num(ValueOf(i))
    /\ PolicyOf(i).criticalMin = Num(ValueOf(i))
    /\ PolicyOf(i).warningMax = Num(ValueOf(i))
    /\ PolicyOf(i).warningMin = Num(ValueOf(i))
    /\ pc[calls[i].proc] = "done"
    /\ AlertCallsFor(i) = {}

\* The insert-batch call of the message of call c threw.
InsertBatchThrew(c) ==
  \E i \in 1..Len(calls) :
    /\ calls[i].proc = c.proc /\ calls[i].mi = c.mi
    /\ calls[i].op = "insertBatch" /\ ~calls[i].ok

(***************************************************************************)
(* C27: no house query, threshold lookup or alert insert is made for a     *)
(* message whose insert-batch call threw, so that no alert is created from *)
(* the events of such a message.                                           *)
(***************************************************************************)
C27_NoEvaluationWithoutPersist ==
  [][(CallAdded /\ NewCall.op \in {"houseQuery", "thresholdLookup", "alertInsert"}) =>
       ~InsertBatchThrew(NewCall)]_vars

C27_Witness ==
  \E p \in Procs :
    /\ pc[p] = "done"
    /\ Len(messages[p]) = 2
    /\ messages[p][1] = messages[p][2]
    /\ \E i \in CallsForMessage(p, 1) : calls[i].op = "insertBatch" /\ ~calls[i].ok
    /\ \A i \in CallsForMessage(p, 1) : calls[i].op = "insertBatch"
    /\ \E i \in CallsForMessage(p, 2) : calls[i].op = "alertInsert" /\ calls[i].ok
    /\ Len(Alerts) = 1

\* A connect of delivery q returned a pool.
Connected(q) == \E i \in CallIndices("connect") : calls[i].proc = q /\ calls[i].ok

(***************************************************************************)
(* C28: the module-level pool is set only to the pool of a connect that    *)
(* succeeded, and so is the pool a delivery works with; a delivery that    *)
(* has gone past getPool, or thrown, without a successful connect of       *)
(* another delivery to reuse has called connect itself.                    *)
(***************************************************************************)
C28_FailedConnectLeavesPoolUnset ==
  /\ pool # NoPool => Connected(pool)
  /\ \A p \in Procs :
       /\ dbPool[p] # NoPool => Connected(dbPool[p])
       /\ (pc[p] \notin {"idle", "start", "connecting"}
             /\ ~\E q \in Procs \ {p} : Connected(q)) =>
            \E i \in CallIndices("connect") : calls[i].proc = p

C28_Witness ==
  /\ Len(calls) >= 2
  /\ calls[1].op = "connect" /\ calls[1].proc = "d1" /\ ~calls[1].ok
  /\ calls[2].op = "connect" /\ calls[2].proc = "d2" /\ calls[2].ok
  /\ pc["d1"] = "thrown" /\ pc["d2"] = "done"
  /\ pool = "d2" /\ dbPool["d1"] = NoPool

LookupsOfGroup(p, m, h) == {i \in CallsForGroup(p, m, h) : calls[i].op = "thresholdLookup"}
HouseQueriesOfGroup(p, m, h) == {i \in CallsForGroup(p, m, h) : calls[i].op = "houseQuery"}

\* The bird age the Houses table now holds for a house.
StoredAge(houseId) ==
  LET row == CHOOSE h \in Houses : h.HouseId = houseId IN row.BirdAgeInDays

(***************************************************************************)
(* C29: the house query is made once for a house group of a message, all   *)
(* the threshold lookups of the group are made with one and the same bird  *)
(* age, and every alert of the group carries the id of the house that the  *)
(* query returned, whatever updates of the house's bird age are made       *)
(* meanwhile.                                                              *)
(***************************************************************************)
C29_HouseReadOncePerGroup ==
  \A p \in Procs : \A m \in MessageIndices(p) :
    ~Malformed(messages[p][m]) =>
      \A h \in 1..Len(GroupsOf(p, m)) :
        /\ Cardinality(HouseQueriesOfGroup(p, m, h)) <= 1
        /\ \A i \in LookupsOfGroup(p, m, h) : \A j \in LookupsOfGroup(p, m, h) :
             calls[i].arg[2] = calls[j].arg[2]
        /\ \A i \in CallsForGroup(p, m, h) :
             calls[i].op = "alertInsert" =>
               \A q \in HouseQueriesOfGroup(p, m, h) :
                 calls[i].arg.HouseId = calls[q].result[1].HouseId

C29_Witness ==
  \E p \in Procs : \E m \in MessageIndices(p) :
    /\ ~Malformed(messages[p][m])
    /\ mi[p] = m /\ hi[p] = 1 /\ ei[p] = 2 /\ pc[p] = "alertInsert"
    /\ Cardinality(LookupsOfGroup(p, m, 1)) = 2
    /\ StoredAge(house[p].HouseId) # Num(AgeUsed(p, m, 1))
    /\ StoredAge(house[p].HouseId) # house[p].BirdAgeInDays
    /\ Len(Alerts) = 1

Finished(p) == pc[p] \in {"done", "thrown"}

\* A step moves a delivery forward by at most one message, one house group and
\* one event, and never back to a place it has left.
PositionAdvances ==
  \A p \in Procs :
    /\ mi'[p] \in {mi[p], mi[p] + 1}
    /\ mi'[p] = mi[p] => hi'[p] \in {hi[p], hi[p] + 1}
    /\ (mi'[p] = mi[p] /\ hi'[p] = hi[p]) => ei'[p] \in {ei[p], ei[p] + 1}

(***************************************************************************)
(* C30: when every awaited store call returns or fails in the end, a       *)
(* delivery that was handed to the handler finishes, by returning or by    *)
(* throwing; and every step takes the delivery to the same or to the next  *)
(* message, house group or event, never to an earlier one.                 *)
(***************************************************************************)
C30_EveryInvocationFinishes ==
  /\ \A p \in Procs : (pc[p] = "start") ~> Finished(p)
  /\ [][PositionAdvances]_vars

C30_Witness ==
  \E p \in Procs :
    /\ pc[p] = "done"
    /\ Len(messages[p]) = 2
    /\ Malformed(messages[p][1])
    /\ Len(Alerts) = 1
    /\ totalEventsInserted[p] = 1

====
